---- MODULE Spec2Model ----
(***************************************************************************)
(* Encoding core of rhinestonewtf/sdk: the token-id codec, the four        *)
(* validator encoders and the typed-data builders, modelled as calls that  *)
(* take one structured input and leave one result.                         *)
(*                                                                         *)
(* Representation.  A Rust String is a sequence of one-character strings,  *)
(* a byte string is a sequence of integers 0..255, a U256 is a 32-byte and *)
(* a u64 an 8-byte big-endian byte string (TLC's integers are too narrow   *)
(* to hold them).  Option<T> is <<>> (None) or <<v>> (Some(v)).  A         *)
(* Result<T, String> is [ok |-> TRUE, val |-> v] or                        *)
(* [ok |-> FALSE, err |-> message].                                        *)
(***************************************************************************)
EXTENDS Integers, Sequences, FiniteSets, TLC

VARIABLES op, input, result

vars == <<op, input, result>>

(***************************************************************************)
(* Bounds of the model.                                                    *)
(***************************************************************************)
\* the number of chunks a token-id string is put together from
MaxChunks == 3

\* pairs in one element's ids_and_amounts
MaxCommitments == 2

\* elements of a multichain input
MaxElements == 2

\* threads calling the exports at the same time
MaxThreads == 2

\* the number of owners in an owner list
MaxOwners == 3

\* the number of owners in an expiring-owner list, and of its expirations
MaxExpiringOwners == 2

\* the number of credentials in a credential list
MaxCredentials == 2

\* the number of entries (null or not) of a composite validator
MaxEntries == 2

(***************************************************************************)
(* Option and Result.                                                      *)
(***************************************************************************)
None == <<>>

Some(v) == <<v>>

Ok(v) == [ok |-> TRUE, val |-> v]

Err(msg) == [ok |-> FALSE, err |-> msg]

\* the values before the first Err, the Err itself dropped
CollectPrefix(rs) ==
    Ok([i \in {j \in 1..Len(rs) : \A k \in 1..j : rs[k].ok} |-> rs[i].val])

\* the first Err of a sequence of Results, or Ok of their values in order
\* (Iterator::collect::<Result<Vec<_>, _>>)
Collect(rs) ==
    IF \E i \in 1..Len(rs) : ~rs[i].ok
    THEN rs[CHOOSE i \in 1..Len(rs) : ~rs[i].ok /\ \A j \in 1..(i - 1) : rs[j].ok]
    ELSE Ok([i \in 1..Len(rs) |-> rs[i].val])

(***************************************************************************)
(* Sequences and bytes.                                                    *)
(***************************************************************************)
Rep(x, n) == [i \in 1..n |-> x]

Range(s) == {s[i] : i \in 1..Len(s)}

Slice(s, from, to) == [i \in 1..(to - from) |-> s[from + i]]

\* all sequences over S of length at most n
SeqsUpTo(S, n) == UNION {[1..k -> S] : k \in 0..n}

RECURSIVE Flatten(_)
Flatten(ss) == IF ss = <<>> THEN <<>> ELSE Head(ss) \o Flatten(Tail(ss))

\* the k-byte big-endian form of a natural number below 2^31
NatBytes(n, k) ==
    [i \in 1..k |-> IF k - i >= 4 THEN 0 ELSE (n \div (256 ^ (k - i))) % 256]

\* a == b as byte strings of one length, a < b lexicographically
LessBytes(a, b) ==
    \E i \in 1..Len(a) : a[i] < b[i] /\ \A j \in 1..(i - 1) : a[j] = b[j]

RECURSIVE BitAnd(_, _)
BitAnd(x, y) ==
    IF x = 0 \/ y = 0 THEN 0
    ELSE (x % 2) * (y % 2) + 2 * BitAnd(x \div 2, y \div 2)

(***************************************************************************)
(* Characters, hex.                                                        *)
(***************************************************************************)
LowerDigits ==
    <<"0","1","2","3","4","5","6","7","8","9","a","b","c","d","e","f","g","h",
      "i","j","k","l","m","n","o","p","q","r","s","t","u","v","w","x","y","z">>

UpperDigits ==
    <<"0","1","2","3","4","5","6","7","8","9","A","B","C","D","E","F","G","H",
      "I","J","K","L","M","N","O","P","Q","R","S","T","U","V","W","X","Y","Z">>

IndexOf(s, c) == CHOOSE i \in 1..Len(s) : s[i] = c

\* alloy_primitives::hex::encode: two lower-case digits per byte
HexEncode(bytes) ==
    [i \in 1..(2 * Len(bytes)) |->
        LET b == bytes[(i + 1) \div 2]
        IN  LowerDigits[(IF i % 2 = 1 THEN b \div 16 ELSE b % 16) + 1]]

\* format!("0x{}", hex::encode(bytes))
Hex0x(bytes) == <<"0", "x">> \o HexEncode(bytes)

\* the value of each digit character: 0-9, then a-z and A-Z as 10..35
DigitValue ==
    [c \in Range(LowerDigits) \cup Range(UpperDigits) |->
        IF c \in Range(LowerDigits) THEN IndexOf(LowerDigits, c) - 1
        ELSE IndexOf(UpperDigits, c) - 1]

\* the value of a hex digit of either case, -1 for any other character
HexDigit(c) ==
    IF c \in DOMAIN DigitValue /\ DigitValue[c] < 16 THEN DigitValue[c] ELSE -1

\* const-hex's strip_prefix: one leading "0x", lower case only
StripPrefix(s) ==
    IF Len(s) >= 2 /\ s[1] = "0" /\ s[2] = "x" THEN SubSeq(s, 3, Len(s)) ELSE s

\* str::starts_with("0x")
StartsWith0x(s) == Len(s) >= 2 /\ s[1] = "0" /\ s[2] = "x"

\* str::trim_start_matches("0x"): every leading repetition of "0x" is removed
RECURSIVE TrimStart0x(_)
TrimStart0x(s) == IF StartsWith0x(s) THEN TrimStart0x(SubSeq(s, 3, Len(s))) ELSE s

\* alloy_primitives::hex::decode: optional prefix, even length, hex digits only
HexDecode(s) ==
    LET t == StripPrefix(s)
    IN  IF Len(t) % 2 = 1 THEN Err("odd number of digits")
        ELSE IF \E i \in 1..Len(t) : HexDigit(t[i]) < 0 THEN Err("invalid character")
        ELSE Ok([i \in 1..(Len(t) \div 2) |->
                    16 * HexDigit(t[2 * i - 1]) + HexDigit(t[2 * i])])

(***************************************************************************)
(* U256: parsing and arithmetic on 32-byte big-endian strings.             *)
(***************************************************************************)
U256Zero == Rep(0, 32)

\* F applied to the value of x (x is evaluated once, before F)
LetIn(x, F(_)) == CHOOSE r \in {F(v) : v \in {x}} : TRUE

\* the parser keeps the value in limbs, most significant first: eleven limbs of
\* 24 bits here, so that limb * radix + carry stays a small integer; the top
\* limb holds bits 240..255 and whatever overflows them
Limb == 2 ^ 24

LimbsZero == Rep(0, 11)

\* limbs i..Len(v) of v times radix plus digit: the limbs of the product and
\* the carry going out of limb i
RECURSIVE MulAddFrom(_, _, _, _)
MulAddFrom(v, radix, i, digit) ==
    IF i > Len(v)
    THEN [limbs |-> <<>>, carry |-> digit]
    ELSE LET low == MulAddFrom(v, radix, i + 1, digit)
             x == v[i] * radix + low.carry
         IN  [limbs |-> <<x % Limb>> \o low.limbs, carry |-> x \div Limb]

\* value * radix + digit, with the carry out of bit 255
MulAdd(v, radix, digit) ==
    LET low == MulAddFrom(v, radix, 2, digit)
        x == v[1] * radix + low.carry
    IN  [limbs |-> <<x % 65536>> \o low.limbs, carry |-> x \div 65536]

\* the 32 big-endian bytes of a value held in limbs
LimbsToBytes(limbs) ==
    [j \in 1..32 |->
        LET l == limbs[(j \div 3) + 1]
        IN  CASE j % 3 = 0 -> l \div 65536
              [] j % 3 = 1 -> (l \div 256) % 256
              [] OTHER     -> l % 256]

\* the digit value of a character in ruint's from_str_radix, radix <= 36:
\* 0-9, a-z and A-Z case-insensitively; -2 for the ignored '_'; -1 otherwise
RadixDigit(c) ==
    IF c \in DOMAIN DigitValue THEN DigitValue[c]
    ELSE IF c = "_" THEN -2
    ELSE -1

\* one digit character folded into the value so far
FoldDigit(acc, radix, c) ==
    LET d == RadixDigit(c)
    IN  IF ~acc.ok THEN acc
        ELSE IF d = -2 THEN acc
        ELSE IF d = -1 THEN Err("invalid digit")
        ELSE IF d >= radix THEN Err("invalid digit for base")
        ELSE LET m == MulAdd(acc.val, radix, d)
             IN  IF m.carry # 0 THEN Err("overflow") ELSE Ok(m.limbs)

\* the characters lo..hi of src folded into acc, most significant first (the
\* range is halved only to keep the evaluation shallow; the order is lo to hi)
RECURSIVE FoldDigits(_, _, _, _, _)
FoldDigits(src, radix, lo, hi, acc) ==
    IF lo > hi THEN acc
    ELSE IF lo = hi THEN FoldDigit(acc, radix, src[lo])
    ELSE LET mid == (lo + hi) \div 2
             Rest(left) == FoldDigits(src, radix, mid + 1, hi, left)
         IN  LetIn(FoldDigits(src, radix, lo, mid, acc), Rest)

\* U256::from_str_radix: digits folded most significant first; a character that
\* is no digit, a digit not below the radix, or a value of 2^256 or more fails
from_str_radix(src, radix) ==
    LET r == FoldDigits(src, radix, 1, Len(src), Ok(LimbsZero))
    IN  IF r.ok THEN Ok(LimbsToBytes(r.val)) ELSE r

\* U256::from(1u64).checked_shl(n).unwrap_or(ZERO), n < 256
OneShl(n) ==
    [i \in 1..32 |-> IF i = 32 - (n \div 8) THEN 2 ^ (n % 8) ELSE 0]

\* a - b on U256, wrapping: byte i borrows when the bytes below it, or byte i
\* itself with the borrow from them, fall short
U256Sub(a, b) ==
    LET Below(i) == \E j \in (i + 1)..32 :
                        a[j] < b[j] /\ \A k \in (i + 1)..(j - 1) : a[k] = b[k]
    IN  [i \in 1..32 |-> (a[i] - b[i] - (IF Below(i) THEN 1 ELSE 0) + 256) % 256]

\* a & b on U256
U256And(a, b) == [i \in 1..32 |-> BitAnd(a[i], b[i])]

U256One == NatBytes(1, 32)

(***************************************************************************)
(* Token-id codec (typed_data/compact.rs, typed_data/permit2.rs).          *)
(***************************************************************************)
\* the id_str -> U256 step the three functions share
ParseTokenId(id_str) ==
    LET r == from_str_radix(TrimStart0x(id_str), IF StartsWith0x(id_str) THEN 16 ELSE 10)
    IN  IF r.ok THEN r ELSE Err("invalid token id")

\* split_token_id with the token taken one byte too early
split_token_id_shifted(id_str) ==
    LET id == ParseTokenId(id_str)
    IN  IF ~id.ok THEN id
        ELSE LET bytes == id.val
             IN  Ok([lock_tag |-> Hex0x(Slice(bytes, 0, 12)),
                     token    |-> Hex0x(Slice(bytes, 11, 31))])

split_token_id(id_str) ==
    LET id == ParseTokenId(id_str)
    IN  IF ~id.ok THEN id
        ELSE LET bytes == id.val
             IN  Ok([lock_tag |-> Hex0x(Slice(bytes, 0, 12)),
                     token    |-> Hex0x(Slice(bytes, 12, 32))])

extract_token_address(id_str) ==
    LET id == ParseTokenId(id_str)
    IN  IF ~id.ok THEN id
        ELSE Ok(Hex0x(Slice(id.val, 12, 32)))

\* Value::String
JString(s) == [string |-> s]

\* parse_bigint: the string itself, as a JSON string
parse_bigint(s) == JString(s)

\* the commitments of one element in build_typed_data: one per (id, amount)
\* pair, in order; the first id that does not split fails the whole list
commitments(ids_and_amounts) ==
    Collect([k \in 1..Len(ids_and_amounts) |->
        LET split == split_token_id(ids_and_amounts[k][1])
        IN  IF ~split.ok THEN split
            ELSE Ok([lockTag |-> split.val.lock_tag,
                     token   |-> split.val.token,
                     amount  |-> parse_bigint(ids_and_amounts[k][2])])])

\* the mask with the shift one byte short: (1 << 152) - 1
TokenMaskShort == U256Sub(OneShl(152), U256One)

\* (1 << 160) - 1
TokenMask == U256Sub(OneShl(160), U256One)

to_token(id_str) ==
    LET id == ParseTokenId(id_str)
    IN  IF ~id.ok THEN id
        ELSE LET token == U256And(id.val, TokenMask)
             IN  Ok(Hex0x(Slice(token, 12, 32)))

(***************************************************************************)
(* Shared pieces of the validator encoders.                                *)
(***************************************************************************)
\* a u64 below 2^31 as 8 big-endian bytes
U64(n) == NatBytes(n, 8)

\* u64::MAX
U64Max == Rep(255, 8)

\* Address::from_str: an optional "0x", then exactly 40 hex digits of any case
AddressFromStr(s) ==
    LET t == StripPrefix(s)
    IN  IF Len(t) # 40 THEN Err("invalid string length")
        ELSE HexDecode(t)

\* slice::sort / sort_by_key: the stable ascending order of s by Key, byte-wise:
\* an element goes after every element with a smaller key and after the earlier
\* elements with an equal key
StableSort(s, Key(_)) ==
    LET n == Len(s)
        Pos(i) == Cardinality({j \in 1..n : LessBytes(Key(s[j]), Key(s[i]))})
                  + Cardinality({j \in 1..i : Key(s[j]) = Key(s[i])})
    IN  [p \in 1..n |-> s[CHOOSE i \in 1..n : Pos(i) = p]]

\* a number below 2^31 as an ABI word
Word(n) == NatBytes(n, 32)

\* U256::from(u64) as an ABI word
U64Word(x) == Rep(0, 24) \o x

\* an address packed into its 20 bytes, without the padding to a word
AddressWordUnpadded(a) == a

\* an address as an ABI word
AddressWord(a) == Rep(0, 12) \o a

\* (threshold, items).abi_encode_params() for a uint256 and an array of static
\* items: the threshold word, the offset 0x40 of the array, its length, its items
AbiThresholdAndArray(threshold, items) ==
    U64Word(threshold) \o Word(64) \o Word(Len(items)) \o Flatten(items)

\* ModuleOutput::validator
ModuleOutputValidator(address, init_data) ==
    [address            |-> address,
     init_data          |-> init_data,
     de_init_data       |-> <<"0", "x">>,
     additional_context |-> <<"0", "x">>,
     module_type        |-> "validator"]

\* Result::map_err(|e| format!("<msg>: {e}"))
MapErr(r, msg) == IF r.ok THEN r ELSE Err(msg)

\* Option::unwrap_or
UnwrapOr(o, default) == IF o = None THEN default ELSE o[1]

\* the ? operator: the Err of r returned as it is, or the rest F on its value
AndThen(r, F(_)) == IF r.ok THEN F(r.val) ELSE r

(***************************************************************************)
(* validators/ownable.rs                                                   *)
(***************************************************************************)
OWNABLE_VALIDATOR_ADDRESS == <<"0","x","0","0","0","0","0","0","0","0","0","0","1","3","f","d","b","5","2","3","4","e","4","e","3","1","6","2","a","8","1","0","f","5","4","d","9","f","7","e","9","8">>

Identity(x) == x

\* the owners left in the caller's order
SortOwnersSkipped(owners) == owners

\* owners.sort() on Vec<Address>
SortOwners(owners) == StableSort(owners, Identity)

\* ownable::encode(input), input = [threshold, owners, address]
ownable_encode(in) ==
    LET Encoded(owners) ==
            LET sorted    == SortOwners(owners)
                init_data == AbiThresholdAndArray(in.threshold,
                                 [i \in 1..Len(sorted) |-> AddressWord(sorted[i])])
                address   == UnwrapOr(in.address, OWNABLE_VALIDATOR_ADDRESS)
            IN  Ok(ModuleOutputValidator(address, Hex0x(init_data)))
    IN  AndThen(Collect([i \in 1..Len(in.owners) |->
                    MapErr(AddressFromStr(in.owners[i]), "invalid owner address")]),
                Encoded)

(***************************************************************************)
(* validators/ens.rs                                                       *)
(***************************************************************************)
ENS_VALIDATOR_ADDRESS == <<"0","x","d","c","3","8","f","0","7","b","0","6","0","3","7","4","b","6","4","8","0","c","4","b","f","0","6","2","3","1","e","7","d","1","0","9","5","5","b","c","a","4">>

\* (1u64 << 48) - 1
max_uint48 == Rep(0, 2) \o Rep(255, 6)

\* u64::from(u32::MAX)
U32MaxAsU64 == Rep(0, 4) \o Rep(255, 4)

\* expiration.try_into().unwrap_or(u64::from(u32::MAX).try_into().unwrap()):
\* a u64 that fits 48 bits is kept, any other becomes u32::MAX
ToUint48(e) == IF e[1] = 0 /\ e[2] = 0 THEN e ELSE U32MaxAsU64

\* input.owner_expirations.get(i).copied().unwrap_or(max_uint48), i from 1
ExpirationAt(expirations, i) ==
    IF i <= Len(expirations) THEN expirations[i] ELSE max_uint48

PairAddr(pair) == pair.addr

\* the pairs left in the caller's order
SortOwnerPairsSkipped(pairs) == pairs

\* owner_pairs.sort_by_key(|(addr, _)| *addr)
SortOwnerPairs(pairs) == StableSort(pairs, PairAddr)

\* ens::encode(input), input = [threshold, owners, owner_expirations, address]
ens_encode(in) ==
    LET Pair(i) ==
            LET WithExpiration(addr) ==
                    Ok([addr       |-> addr,
                        expiration |-> ExpirationAt(in.owner_expirations, i)])
            IN  AndThen(MapErr(AddressFromStr(in.owners[i]), "invalid owner address"),
                        WithExpiration)
        Encoded(pairs) ==
            LET sorted    == SortOwnerPairs(pairs)
                owners    == [i \in 1..Len(sorted) |->
                                AddressWord(sorted[i].addr)
                                \o U64Word(ToUint48(sorted[i].expiration))]
                init_data == AbiThresholdAndArray(in.threshold, owners)
                address   == UnwrapOr(in.address, ENS_VALIDATOR_ADDRESS)
            IN  Ok(ModuleOutputValidator(address, Hex0x(init_data)))
    IN  AndThen(Collect([i \in 1..Len(in.owners) |-> Pair(i)]), Encoded)

(***************************************************************************)
(* validators/webauthn.rs                                                  *)
(***************************************************************************)
WEBAUTHN_VALIDATOR_ADDRESS == <<"0","x","0","0","0","0","0","0","0","0","0","0","5","7","8","c","4","c","b","0","e","4","7","2","a","5","4","6","2","d","a","4","3","c","4","9","5","c","3","f","3","3">>

\* U256::from_str: the radix from a two-character prefix of either case
\* (0x, 0o, 0b), decimal without one
U256FromStr(s) ==
    LET prefix == IF Len(s) >= 2 THEN SubSeq(s, 1, 2) ELSE <<>>
        radix  == CASE prefix \in {<<"0", "x">>, <<"0", "X">>} -> 16
                    [] prefix \in {<<"0", "o">>, <<"0", "O">>} -> 8
                    [] prefix \in {<<"0", "b">>, <<"0", "B">>} -> 2
                    [] OTHER -> 10
    IN  from_str_radix(IF radix = 10 THEN s ELSE SubSeq(s, 3, Len(s)), radix)

\* the flag set
RequireUVSet == TRUE

\* requireUV: false
RequireUV == FALSE

\* a bool as an ABI word
BoolWord(b) == Word(IF b THEN 1 ELSE 0)

\* webauthn::encode(input), input = [threshold, credentials, address]
webauthn_encode(in) ==
    LET Cred(c) ==
            LET WithX(x) ==
                    LET WithY(y) == Ok(x \o y \o BoolWord(RequireUV))
                    IN  AndThen(MapErr(U256FromStr(c.pub_key_y), "invalid pubKeyY"), WithY)
            IN  AndThen(MapErr(U256FromStr(c.pub_key_x), "invalid pubKeyX"), WithX)
        Encoded(creds) ==
            LET init_data == AbiThresholdAndArray(in.threshold, creds)
                address   == UnwrapOr(in.address, WEBAUTHN_VALIDATOR_ADDRESS)
            IN  Ok(ModuleOutputValidator(address, Hex0x(init_data)))
    IN  AndThen(Collect([i \in 1..Len(in.credentials) |-> Cred(in.credentials[i])]),
                Encoded)

(***************************************************************************)
(* validators/multi_factor.rs                                              *)
(***************************************************************************)
MULTI_FACTOR_VALIDATOR_ADDRESS == <<"0","x","f","6","b","d","f","4","2","c","9","b","e","1","8","c","e","c","a","5","c","0","6","c","4","2","a","4","3","d","a","f","7","f","b","b","e","7","8","9","6","b">>

\* input.threshold as u8: the low byte of the u64
ThresholdAsU8(threshold) == threshold[8]

\* the match with an absent owners list read as an empty one
InnerModuleOwnersDefaulted(validator) ==
    LET threshold == UnwrapOr(validator.threshold, U64(1))
    IN  CASE validator.validator_type = "ecdsa" ->
                ownable_encode([threshold |-> threshold,
                                owners    |-> UnwrapOr(validator.owners, <<>>),
                                address   |-> validator.address])
          [] validator.validator_type = "ens" ->
                ens_encode([threshold         |-> threshold,
                            owners            |-> UnwrapOr(validator.owners, <<>>),
                            owner_expirations |-> UnwrapOr(validator.owner_expirations, <<>>),
                            address           |-> validator.address])
          [] validator.validator_type = "passkey" ->
                webauthn_encode([threshold   |-> threshold,
                                 credentials |-> UnwrapOr(validator.credentials, <<>>),
                                 address     |-> validator.address])
          [] OTHER -> Err("unknown validator type: " \o validator.validator_type)

\* the match on validator.validator_type: the inner encoder's Result
InnerModule(validator) ==
    LET threshold == UnwrapOr(validator.threshold, U64(1))
    IN  CASE validator.validator_type = "ecdsa" ->
                IF validator.owners = None THEN Err("ecdsa validator requires owners")
                ELSE ownable_encode([threshold |-> threshold,
                                     owners    |-> validator.owners[1],
                                     address   |-> validator.address])
          [] validator.validator_type = "ens" ->
                IF validator.owners = None THEN Err("ens validator requires owners")
                ELSE IF validator.owner_expirations = None
                THEN Err("ens validator requires ownerExpirations")
                ELSE ens_encode([threshold         |-> threshold,
                                 owners            |-> validator.owners[1],
                                 owner_expirations |-> validator.owner_expirations[1],
                                 address           |-> validator.address])
          [] validator.validator_type = "passkey" ->
                IF validator.credentials = None
                THEN Err("passkey validator requires credentials")
                ELSE webauthn_encode([threshold   |-> threshold,
                                      credentials |-> validator.credentials[1],
                                      address     |-> validator.address])
          [] OTHER -> Err("unknown validator type: " \o validator.validator_type)

\* the 32-byte key: the index (from 0) as 12 big-endian bytes, then the address
PackedValidatorAndId(index, validator_address) ==
    NatBytes(index, 12) \o validator_address

\* one turn of the loop for a present entry: its ValidatorEntry, or the error
ValidatorEntryOf(index, validator) ==
    LET WithModule(inner_module) ==
            LET WithAddress(validator_address) ==
                    LET WithData(init_data_bytes) ==
                            Ok([packedValidatorAndId |->
                                    PackedValidatorAndId(index, validator_address),
                                data |-> init_data_bytes])
                    IN  AndThen(MapErr(HexDecode(TrimStart0x(inner_module.init_data)),
                                       "hex decode"),
                                WithData)
            IN  AndThen(MapErr(AddressFromStr(inner_module.address),
                               "invalid validator address"),
                        WithAddress)
    IN  AndThen(InnerModule(validator), WithModule)

\* the positions (from 1) of the entries that are not None, ascending
RECURSIVE PresentFrom(_, _)
PresentFrom(validators, i) ==
    IF i > Len(validators) THEN <<>>
    ELSE (IF validators[i] = None THEN <<>> ELSE <<i>>) \o PresentFrom(validators, i + 1)

\* the loop with the index counting the present entries only
ValidatorEntriesRenumbered(validators) ==
    LET present == PresentFrom(validators, 1)
    IN  Collect([k \in 1..Len(present) |->
                    ValidatorEntryOf(k - 1, validators[present[k]][1])])

\* the loop over input.validators.iter().enumerate(): the entries pushed, or
\* the first error
ValidatorEntries(validators) ==
    LET present == PresentFrom(validators, 1)
    IN  Collect([k \in 1..Len(present) |->
                    ValidatorEntryOf(present[k] - 1, validators[present[k]][1])])

\* the bytes of a length-prefixed `bytes` value, zero-padded to a word boundary
AbiBytes(data) ==
    Word(Len(data)) \o data \o Rep(0, (32 - (Len(data) % 32)) % 32)

\* a ValidatorEntry (bytes32, bytes) as a dynamic tuple: the key, the offset
\* 0x40 of the data, the data
AbiEntry(e) == e.packedValidatorAndId \o Word(64) \o AbiBytes(e.data)

RECURSIVE SumLen(_, _)
SumLen(ss, n) == IF n = 0 THEN 0 ELSE Len(ss[n]) + SumLen(ss, n - 1)

\* entries.abi_encode_params(): one parameter of type (bytes32,bytes)[]: the
\* offset 0x20 of the array, its length, the offsets of its items, the items
AbiEntries(entries) ==
    LET n     == Len(entries)
        items == [i \in 1..n |-> AbiEntry(entries[i])]
    IN  Word(32) \o Word(n)
        \o Flatten([i \in 1..n |-> Word(32 * n + SumLen(items, i - 1))])
        \o Flatten(items)

\* multi_factor::encode(input), input = [threshold, validators]
multi_factor_encode(in) ==
    LET threshold == ThresholdAsU8(in.threshold)
        Encoded(entries) ==
            LET abi_encoded == AbiEntries(entries)
                res         == <<threshold>> \o abi_encoded
            IN  Ok(ModuleOutputValidator(MULTI_FACTOR_VALIDATOR_ADDRESS, Hex0x(res)))
    IN  AndThen(ValidatorEntries(in.validators), Encoded)

(***************************************************************************)
(* Typed-data documents.  An object is a record, an array a sequence, a    *)
(* number is [number |-> the u64]; a string that parse_bigint makes is     *)
(* [string |-> the String], and a String that json! takes as it is stays   *)
(* the String (a literal for the fixed names).                             *)
(***************************************************************************)
\* json!(chain_id) for a u64: a JSON number
JNumber(n) == [number |-> n]

\* str::parse::<u64>(): one leading "+" allowed, then decimal digits only, at
\* least one, and a value below 2^64
ParseU64(src) ==
    IF Len(src) = 0 THEN Err("cannot parse integer from empty string")
    ELSE IF src = <<"+">> \/ src = <<"-">> THEN Err("invalid digit found in string")
    ELSE LET digits == IF src[1] = "+" THEN Tail(src) ELSE src
             Fit(v) ==
                 IF SubSeq(v, 1, 24) = Rep(0, 24) THEN Ok(SubSeq(v, 25, 32))
                 ELSE Err("number too large to fit in target type")
         IN  IF \E i \in 1..Len(digits) :
                    digits[i] \notin DOMAIN DigitValue \/ DigitValue[digits[i]] >= 10
             THEN Err("invalid digit found in string")
             ELSE AndThen(MapErr(from_str_radix(digits, 10),
                                 "number too large to fit in target type"),
                          Fit)

\* keccak256 of a byte string: the digest, told apart by what was hashed
keccak256(bytes) == [keccak256 |-> bytes]

\* format!("0x{}", hex::encode(digest)) of a digest
DigestHex0x(digest) == [hex0x |-> digest]

\* the "q" of a mandate: the qualifier's bytes hashed, or the decode error
QualifierDigest(qualifier_encoded_val) ==
    LET Hashed(bytes) == Ok(DigestHex0x(keccak256(bytes)))
    IN  AndThen(MapErr(HexDecode(TrimStart0x(qualifier_encoded_val)),
                       "invalid qualifier hex"),
                Hashed)

\* the "mandate" object both builders emit
MandateValue(mandate, token_out, q) ==
    [target    |-> [recipient   |-> mandate.recipient,
                    tokenOut    |-> token_out,
                    targetChain |-> parse_bigint(mandate.destination_chain_id),
                    fillExpiry  |-> parse_bigint(mandate.fill_deadline)],
     minGas    |-> parse_bigint(mandate.min_gas),
     originOps |-> mandate.pre_claim_ops,
     destOps   |-> mandate.destination_ops,
     q         |-> q]

\* one {name, type} entry of a types schema
Field(name, type) == [name |-> name, type |-> type]

(***************************************************************************)
(* typed_data/compact.rs                                                   *)
(***************************************************************************)
COMPACT_VERIFYING_CONTRACT == <<"0","x","7","3","d","2","d","c","0","c","2","1","f","c","a","4","e","c","1","6","0","1","8","9","5","d","5","0","d","f","7","f","5","6","2","4","f","0","7","d","3","f">>

compact_types ==
    [MultichainCompact |-> <<Field("sponsor", "address"), Field("nonce", "uint256"),
                             Field("expires", "uint256"), Field("elements", "Element[]")>>,
     Element |-> <<Field("arbiter", "address"), Field("chainId", "uint256"),
                   Field("commitments", "Lock[]"), Field("mandate", "Mandate")>>,
     Lock    |-> <<Field("lockTag", "bytes12"), Field("token", "address"),
                   Field("amount", "uint256")>>,
     Mandate |-> <<Field("target", "Target"), Field("minGas", "uint128"),
                   Field("originOps", "Op"), Field("destOps", "Op"),
                   Field("q", "bytes32")>>,
     Target  |-> <<Field("recipient", "address"), Field("tokenOut", "Token[]"),
                   Field("targetChain", "uint256"), Field("fillExpiry", "uint256")>>,
     Token   |-> <<Field("token", "address"), Field("amount", "uint256")>>,
     Op      |-> <<Field("vt", "bytes32"), Field("ops", "Ops[]")>>,
     Ops     |-> <<Field("to", "address"), Field("value", "uint256"),
                   Field("data", "bytes")>>]

\* the tokenOut list of one element: one {token, amount} per pair, in order
compact_token_out(token_out) ==
    Collect([k \in 1..Len(token_out) |->
        LET WithToken(token) ==
                Ok([token |-> token, amount |-> parse_bigint(token_out[k][2])])
        IN  AndThen(extract_token_address(token_out[k][1]), WithToken)])

\* the closure over one element: its commitments, then its tokenOut, then its
\* qualifier are unwrapped in this order
compact_element(element) ==
    LET WithCommitments(locks) ==
            LET WithTokenOut(token_out) ==
                    LET WithQ(q) ==
                            Ok([arbiter     |-> element.arbiter,
                                chainId     |-> parse_bigint(element.chain_id),
                                commitments |-> locks,
                                mandate     |-> MandateValue(element.mandate, token_out, q)])
                    IN  AndThen(QualifierDigest(element.mandate.qualifier_encoded_val), WithQ)
            IN  AndThen(compact_token_out(element.mandate.token_out), WithTokenOut)
    IN  AndThen(commitments(element.ids_and_amounts), WithCommitments)

\* the last element where the first is meant
Last(elements) == IF Len(elements) = 0 THEN None ELSE Some(elements[Len(elements)])

\* slice::first
First(elements) == IF Len(elements) = 0 THEN None ELSE Some(elements[1])

\* compact::build_typed_data(input), input = [sponsor, nonce, expires, elements]
compact_build_typed_data(in) ==
    IF First(in.elements) = None THEN Err("elements must not be empty")
    ELSE LET WithChainId(chain_id) ==
                 LET WithElements(elements) ==
                         Ok([domain      |-> [name              |-> "The Compact",
                                              version           |-> "1",
                                              chainId           |-> JNumber(chain_id),
                                              verifyingContract |-> COMPACT_VERIFYING_CONTRACT],
                             types       |-> compact_types,
                             primaryType |-> "MultichainCompact",
                             message     |-> [sponsor  |-> in.sponsor,
                                              nonce    |-> parse_bigint(in.nonce),
                                              expires  |-> parse_bigint(in.expires),
                                              elements |-> elements]])
                 IN  AndThen(Collect([i \in 1..Len(in.elements) |->
                                         compact_element(in.elements[i])]),
                             WithElements)
         IN  AndThen(MapErr(ParseU64(First(in.elements)[1].chain_id), "invalid chainId"),
                     WithChainId)

(***************************************************************************)
(* typed_data/permit2.rs                                                   *)
(***************************************************************************)
PERMIT2_ADDRESS == <<"0","x","0","0","0","0","0","0","0","0","0","0","2","2","D","4","7","3","0","3","0","F","1","1","6","d","D","E","E","9","F","6","B","4","3","a","C","7","8","B","A","3">>

permit2_types ==
    [TokenPermissions |-> <<Field("token", "address"), Field("amount", "uint256")>>,
     Token   |-> <<Field("token", "address"), Field("amount", "uint256")>>,
     Target  |-> <<Field("recipient", "address"), Field("tokenOut", "Token[]"),
                   Field("targetChain", "uint256"), Field("fillExpiry", "uint256")>>,
     Ops     |-> <<Field("to", "address"), Field("value", "uint256"),
                   Field("data", "bytes")>>,
     Op      |-> <<Field("vt", "bytes32"), Field("ops", "Ops[]")>>,
     Mandate |-> <<Field("target", "Target"), Field("minGas", "uint128"),
                   Field("originOps", "Op"), Field("destOps", "Op"),
                   Field("q", "bytes32")>>,
     PermitBatchWitnessTransferFrom |->
         <<Field("permitted", "TokenPermissions[]"), Field("spender", "address"),
           Field("nonce", "uint256"), Field("deadline", "uint256"),
           Field("mandate", "Mandate")>>]

\* token_permissions and token_out: one {token, amount} per pair, in order
permit2_tokens(pairs) ==
    Collect([k \in 1..Len(pairs) |->
        LET WithToken(token) ==
                Ok([token |-> token, amount |-> parse_bigint(pairs[k][2])])
        IN  AndThen(to_token(pairs[k][1]), WithToken)])

\* permit2::build_typed_data(input), input = [element, nonce, expires]: the
\* chain id, then the permissions, then the payouts, then the qualifier
permit2_build_typed_data(in) ==
    LET element == in.element
        WithChainId(chain_id) ==
            LET WithPermitted(token_permissions) ==
                    LET WithTokenOut(token_out) ==
                            LET WithQ(q) ==
                                    Ok([domain      |-> [name              |-> "Permit2",
                                                         chainId           |-> JNumber(chain_id),
                                                         verifyingContract |-> PERMIT2_ADDRESS],
                                        types       |-> permit2_types,
                                        primaryType |-> "PermitBatchWitnessTransferFrom",
                                        message     |->
                                            [permitted |-> token_permissions,
                                             spender   |-> element.arbiter,
                                             nonce     |-> parse_bigint(in.nonce),
                                             deadline  |-> parse_bigint(in.expires),
                                             mandate   |-> MandateValue(element.mandate,
                                                                        token_out, q)]])
                            IN  AndThen(QualifierDigest(element.mandate.qualifier_encoded_val),
                                        WithQ)
                    IN  AndThen(permit2_tokens(element.mandate.token_out), WithTokenOut)
            IN  AndThen(permit2_tokens(element.ids_and_amounts), WithPermitted)
    IN  AndThen(MapErr(ParseU64(element.chain_id), "invalid chainId"), WithChainId)

(***************************************************************************)
(* typed_data/single_chain.rs                                              *)
(***************************************************************************)
base_types ==
    [Op  |-> <<Field("vt", "bytes32"), Field("ops", "Ops[]")>>,
     Ops |-> <<Field("to", "address"), Field("value", "uint256"),
               Field("data", "bytes")>>]

\* an insertion that leaves the map as it was
InsertDropped(map, key, value) == map

\* serde_json::Map::insert: the key bound to the value, replacing any earlier one
Insert(map, key, value) == (key :> value) @@ map

SingleChainOpsFields ==
    <<Field("account", "address"), Field("nonce", "uint256"),
      Field("op", "Op"), Field("gasRefund", "GasRefund")>>

\* the types of the legacy builder: base_types with the two insertions
legacy_types ==
    Insert(Insert(base_types, "SingleChainOps", SingleChainOpsFields),
           "GasRefund",
           <<Field("token", "address"), Field("exchangeRate", "uint256")>>)

\* the gas-refund builder with the schema of the legacy one
GasRefundTypesAsLegacy == legacy_types

\* the types of the gas-refund builder
gas_refund_types ==
    Insert(Insert(base_types, "SingleChainOps", SingleChainOpsFields),
           "GasRefund",
           <<Field("token", "address"), Field("exchangeRate", "uint256"),
             Field("overhead", "uint256")>>)

ZeroAddress == <<"0", "x">> \o Rep("0", 40)

\* the domain of both single-chain builders
SingleChainDomain(chain_id, intent_executor_address) ==
    [name              |-> "IntentExecutor",
     version           |-> "v0.0.1",
     chainId           |-> JNumber(chain_id),
     verifyingContract |-> intent_executor_address]

\* build_typed_data_legacy(input), input = [account, intent_executor_address,
\* destination_chain_id, destination_ops, nonce]
build_typed_data_legacy(in) ==
    LET WithChainId(chain_id) ==
            Ok([domain      |-> SingleChainDomain(chain_id, in.intent_executor_address),
                types       |-> legacy_types,
                primaryType |-> "SingleChainOps",
                message     |-> [account   |-> in.account,
                                 nonce     |-> parse_bigint(in.nonce),
                                 op        |-> in.destination_ops,
                                 gasRefund |-> [token        |-> ZeroAddress,
                                                exchangeRate |-> parse_bigint(<<"0">>)]]])
    IN  AndThen(MapErr(ParseU64(in.destination_chain_id), "invalid chainId"), WithChainId)

\* build_typed_data_with_gas_refund(input), the legacy input and gas_refund =
\* [token, exchange_rate, overhead]
build_typed_data_with_gas_refund(in) ==
    LET WithChainId(chain_id) ==
            Ok([domain      |-> SingleChainDomain(chain_id, in.intent_executor_address),
                types       |-> gas_refund_types,
                primaryType |-> "SingleChainOps",
                message     |->
                    [account   |-> in.account,
                     nonce     |-> parse_bigint(in.nonce),
                     op        |-> in.destination_ops,
                     gasRefund |-> [token        |-> in.gas_refund.token,
                                    exchangeRate |-> parse_bigint(in.gas_refund.exchange_rate),
                                    overhead     |-> parse_bigint(in.gas_refund.overhead)]]])
    IN  AndThen(MapErr(ParseU64(in.destination_chain_id), "invalid chainId"), WithChainId)

(***************************************************************************)
(* Inputs of the codec: token-id strings put together from chunks.         *)
(***************************************************************************)
\* 32 hex digits of both cases: two of them after "0x" fill all 32 bytes
V32 == <<"0","1","2","3","4","5","6","7","8","9","a","b","c","d","e","f","F","E","D","C","B","A","9","8","7","6","5","4","3","2","1","0">>

\* 26 decimal digits: two of them exceed 2^160, three of them exceed 2^256
D26 == Rep("9", 26)

IdChunks == {<<"0", "x">>, V32, D26, <<"7">>, <<"_">>, <<"g">>}

TokenIds == {Flatten(cs) : cs \in SeqsUpTo(IdChunks, MaxChunks)}

\* ids of commitments: a full-width hex id, a decimal id above 2^160, a small
\* id and one that does not parse
CommitmentIds == {<<"0", "x">> \o V32 \o V32, D26 \o D26, <<"7">>, <<"g">>}

Amounts == {<<"1">>, <<"0", "x", "1">>}

IdsAndAmounts == SeqsUpTo(CommitmentIds \X Amounts, MaxCommitments)

(***************************************************************************)
(* Inputs of the validator encoders.                                       *)
(***************************************************************************)
\* the owners of the tests of ownable.rs
AccountA == <<"0","x","f","6","c","0","2","c","7","8","d","e","d","6","2","9","7","3","b","4","3","b","f","a","5","2","3","b","2","4","7","d","a","0","9","9","4","8","6","9","3","6">>

AccountB == <<"0","x","6","0","9","2","0","8","6","a","3","d","c","0","0","2","0","c","d","6","0","4","a","6","8","f","c","f","5","d","4","3","0","0","0","7","d","5","1","b","b","7">>

AccountC == <<"0","x","c","2","7","b","7","5","7","8","1","5","1","c","5","e","f","7","1","3","c","6","2","c","6","5","d","b","0","9","7","6","3","d","5","7","a","c","3","5","9","6">>

\* AccountA in upper-case digits
AccountAUpper == <<"0","x","F","6","C","0","2","C","7","8","D","E","D","6","2","9","7","3","B","4","3","B","F","A","5","2","3","B","2","4","7","D","A","0","9","9","4","8","6","9","3","6">>

\* no address: too short
ShortAddress == <<"0", "x", "1", "2">>

OwnerStrings == {AccountA, AccountB, AccountAUpper, ShortAddress}

OwnableInputs ==
    [threshold : {U64(1), U64Max},
     owners    : SeqsUpTo(OwnerStrings, MaxOwners),
     address   : {None, Some(ShortAddress)}]

\* 2^48, the least u64 that does not fit 48 bits
Over48 == <<0, 1, 0, 0, 0, 0, 0, 0>>

ENSInputs ==
    [threshold         : {U64(1)},
     owners            : SeqsUpTo(OwnerStrings, MaxExpiringOwners),
     owner_expirations : SeqsUpTo({U64(7), Over48}, MaxExpiringOwners),
     address           : {None, Some(AccountC)}]

\* the key of the test of webauthn.rs
PubKeyX == <<"0","x","5","8","0","a","9","a","f","0","5","6","9","a","d","3","9","0","5","b","2","6","a","7","0","3","2","0","1","b","3","5","8","a","a","0","9","0","4","2","3","6","6","4","2","e","b","e","7","9","b","2","2","a","1","9","d","0","0","d","3","7","3","7","6","3">>

PubKeyY == <<"0","x","7","d","4","6","f","7","2","5","a","5","4","2","7","a","e","4","5","a","9","5","6","9","2","5","9","b","f","6","7","e","1","e","1","6","b","1","8","7","d","7","b","3","a","d","1","e","d","7","0","1","3","8","c","4","f","0","4","0","9","6","7","7","d","1">>

Credentials ==
    {[pub_key_x |-> PubKeyX, pub_key_y |-> PubKeyY],
     [pub_key_x |-> PubKeyY, pub_key_y |-> PubKeyX],
     [pub_key_x |-> <<"7">>, pub_key_y |-> <<"0", "X", "f", "F">>],
     [pub_key_x |-> PubKeyX, pub_key_y |-> <<"0", "x", "g">>]}

WebAuthnInputs ==
    [threshold   : {U64(1), U64(2)},
     credentials : SeqsUpTo(Credentials, MaxCredentials),
     address     : {None, Some(ShortAddress)}]

\* a MultiFactorValidatorEntry
Entry(type, threshold, owners, expirations, credentials, address) ==
    [validator_type    |-> type,
     threshold         |-> threshold,
     owners            |-> owners,
     owner_expirations |-> expirations,
     credentials       |-> credentials,
     address           |-> address]

Entries ==
    {Entry("ecdsa", None, Some(<<AccountA, AccountB>>), None, None, None),
     Entry("ecdsa", Some(U64(2)), Some(<<AccountB>>), None, None, Some(AccountC)),
     Entry("ecdsa", None, Some(<<AccountA>>), None, None, Some(ShortAddress)),
     Entry("ecdsa", None, None, None, None, None),
     Entry("ens", None, Some(<<AccountA>>), Some(<<U64(7)>>), None, None),
     Entry("ens", None, Some(<<AccountA>>), None, None, None),
     Entry("ens", None, None, Some(<<U64(7)>>), None, None),
     Entry("passkey", None, None, None,
           Some(<<[pub_key_x |-> PubKeyX, pub_key_y |-> PubKeyY]>>), None),
     Entry("passkey", None, Some(<<AccountA>>), None, None, None),
     Entry("totp", None, Some(<<AccountA>>), None, None, None)}

MultiFactorInputs ==
    [threshold  : {U64(255), U64(256)},
     validators : SeqsUpTo({None} \cup {Some(e) : e \in Entries}, MaxEntries)]

(***************************************************************************)
(* Inputs of the typed-data builders.                                      *)
(***************************************************************************)
\* chain ids: two plain ones, one with a sign, one that is no number, the
\* empty string and one above 2^64
ChainIdStrings == {<<"1">>, <<"1", "0">>, <<"+", "1">>, <<"g">>, <<>>, Rep("9", 20)}

\* nonces: a decimal one and one that is not decimal
Nonces == {<<"1">>, <<"0", "x", "1">>}

\* an operation tree, passed through as it is
NoOps == [vt |-> <<"0", "x">>, ops |-> <<>>]

HexId == <<"0", "x">> \o V32 \o V32

DecimalId == D26 \o D26

BaseMandate ==
    [recipient             |-> AccountB,
     token_out             |-> <<<<HexId, <<"7">>>>>>,
     destination_chain_id  |-> <<"1", "0">>,
     fill_deadline         |-> <<"9", "9">>,
     min_gas               |-> <<"0">>,
     pre_claim_ops         |-> NoOps,
     destination_ops       |-> NoOps,
     qualifier_encoded_val |-> <<"0", "x", "1", "2", "3", "4">>]

BaseElement ==
    [arbiter         |-> AccountA,
     chain_id        |-> <<"1">>,
     ids_and_amounts |-> <<<<DecimalId, <<"5">>>>, <<HexId, <<"6">>>>>>,
     mandate         |-> BaseMandate]

\* elements: the base one and ones that differ from it in one field: another
\* chain id, a chain id that is no number, a signed one, one above 2^64, a
\* second commitment whose id does not parse, a payout whose id does not
\* parse, a qualifier of odd length, a qualifier with the prefix twice, an
\* amount that is not decimal
Elements ==
    {BaseElement,
     [BaseElement EXCEPT !.chain_id = <<"1", "0">>],
     [BaseElement EXCEPT !.chain_id = <<"g">>],
     [BaseElement EXCEPT !.chain_id = <<"+", "1">>],
     [BaseElement EXCEPT !.chain_id = Rep("9", 20)],
     [BaseElement EXCEPT !.ids_and_amounts = <<<<DecimalId, <<"5">>>>, <<<<"g">>, <<"6">>>>>>],
     [BaseElement EXCEPT !.mandate.token_out = <<<<HexId, <<"7">>>>, <<<<"g">>, <<"8">>>>>>],
     [BaseElement EXCEPT !.mandate.qualifier_encoded_val = <<"0", "x", "1", "2", "3">>],
     [BaseElement EXCEPT !.mandate.qualifier_encoded_val = <<"0", "x", "0", "x", "1", "2">>],
     [BaseElement EXCEPT !.ids_and_amounts = <<<<<<"7">>, <<"0", "x", "5">>>>>>]}

CompactInputs ==
    [sponsor  : {AccountA},
     nonce    : {<<"1">>},
     expires  : {<<"2">>},
     elements : SeqsUpTo(Elements, MaxElements)]

Permit2Inputs ==
    [element : Elements,
     nonce   : Nonces,
     expires : {<<"2">>}]

SingleChainLegacyInputs ==
    [account                 : {AccountA},
     intent_executor_address : {AccountB, ShortAddress},
     destination_chain_id    : ChainIdStrings,
     destination_ops         : {NoOps},
     nonce                   : Nonces]

GasRefundInputs ==
    {[token |-> AccountC, exchange_rate |-> <<"3">>, overhead |-> <<"4">>],
     [token |-> ZeroAddress, exchange_rate |-> <<"0">>, overhead |-> <<"0", "x", "4">>]}

SingleChainGasRefundInputs ==
    [account                 : {AccountA},
     intent_executor_address : {AccountB, ShortAddress},
     destination_chain_id    : ChainIdStrings,
     destination_ops         : {NoOps},
     nonce                   : Nonces,
     gas_refund              : GasRefundInputs]

(***************************************************************************)
(* The calls.                                                              *)
(***************************************************************************)
Init ==
    /\ op = "none"
    /\ input = <<>>
    /\ result = Err("no call")

SplitTokenId ==
    \E id \in TokenIds :
        /\ op = "none"
        /\ op' = "split_token_id"
        /\ input' = id
        /\ result' = split_token_id(id)

ExtractTokenAddress ==
    \E id \in TokenIds :
        /\ op = "none"
        /\ op' = "extract_token_address"
        /\ input' = id
        /\ result' = extract_token_address(id)

ToToken ==
    \E id \in TokenIds :
        /\ op = "none"
        /\ op' = "to_token"
        /\ input' = id
        /\ result' = to_token(id)

BuildCommitments ==
    \E pairs \in IdsAndAmounts :
        /\ op = "none"
        /\ op' = "commitments"
        /\ input' = pairs
        /\ result' = commitments(pairs)

OwnableEncode ==
    \E in \in OwnableInputs :
        /\ op = "none"
        /\ op' = "ownable"
        /\ input' = in
        /\ result' = ownable_encode(in)

ENSEncode ==
    \E in \in ENSInputs :
        /\ op = "none"
        /\ op' = "ens"
        /\ input' = in
        /\ result' = ens_encode(in)

WebAuthnEncode ==
    \E in \in WebAuthnInputs :
        /\ op = "none"
        /\ op' = "webauthn"
        /\ input' = in
        /\ result' = webauthn_encode(in)

MultiFactorEncode ==
    \E in \in MultiFactorInputs :
        /\ op = "none"
        /\ op' = "multi_factor"
        /\ input' = in
        /\ result' = multi_factor_encode(in)

CompactTypedData ==
    \E in \in CompactInputs :
        /\ op = "none"
        /\ op' = "compact"
        /\ input' = in
        /\ result' = compact_build_typed_data(in)

Permit2TypedData ==
    \E in \in Permit2Inputs :
        /\ op = "none"
        /\ op' = "permit2"
        /\ input' = in
        /\ result' = permit2_build_typed_data(in)

SingleChainLegacy ==
    \E in \in SingleChainLegacyInputs :
        /\ op = "none"
        /\ op' = "single_chain_legacy"
        /\ input' = in
        /\ result' = build_typed_data_legacy(in)

SingleChainGasRefund ==
    \E in \in SingleChainGasRefundInputs :
        /\ op = "none"
        /\ op' = "single_chain_gas_refund"
        /\ input' = in
        /\ result' = build_typed_data_with_gas_refund(in)

\* the binding hands the result to the host; the next call starts afresh
Return ==
    /\ op # "none"
    /\ op' = "none"
    /\ input' = <<>>
    /\ result' = Err("no call")

NextCodec ==
    SplitTokenId \/ ExtractTokenAddress \/ ToToken \/ BuildCommitments \/ Return

SpecCodec == Init /\ [][NextCodec]_vars

NextValidators ==
    OwnableEncode \/ ENSEncode \/ WebAuthnEncode \/ MultiFactorEncode \/ Return

SpecValidators == Init /\ [][NextValidators]_vars

NextBuilders ==
    CompactTypedData \/ Permit2TypedData \/ SingleChainLegacy \/ SingleChainGasRefund
    \/ Return

SpecBuilders == Init /\ [][NextBuilders]_vars

\* the calls whose input is a list of items, each of which can fail
NextLists == MultiFactorEncode \/ CompactTypedData \/ Permit2TypedData \/ Return

SpecLists == Init /\ [][NextLists]_vars

(***************************************************************************)
(* Concurrent callers.  Each thread makes calls of the eight exports, one  *)
(* after the other; the calls of different threads interleave.  Here op,   *)
(* input and result hold one value per thread, and a result is None while  *)
(* the call runs.                                                          *)
(***************************************************************************)
Threads == 1..MaxThreads

\* the exports of the binding, applied to a parsed input
Export(name, in) ==
    CASE name = "ownable" -> ownable_encode(in)
      [] name = "ens" -> ens_encode(in)
      [] name = "webauthn" -> webauthn_encode(in)
      [] name = "multi_factor" -> multi_factor_encode(in)
      [] name = "compact" -> compact_build_typed_data(in)
      [] name = "permit2" -> permit2_build_typed_data(in)
      [] name = "single_chain_legacy" -> build_typed_data_legacy(in)
      [] name = "single_chain_gas_refund" -> build_typed_data_with_gas_refund(in)

\* the calls the threads make: each export once with an input it accepts, two
\* of them also with one it refuses
Calls ==
    {<<"ownable", [threshold |-> U64(1), owners |-> <<AccountB, AccountA>>,
                   address |-> None]>>,
     <<"ownable", [threshold |-> U64(1), owners |-> <<ShortAddress>>,
                   address |-> None]>>,
     <<"ens", [threshold |-> U64(1), owners |-> <<AccountA>>,
               owner_expirations |-> <<U64(7)>>, address |-> None]>>,
     <<"webauthn", [threshold |-> U64(1),
                    credentials |-> <<[pub_key_x |-> <<"7">>,
                                       pub_key_y |-> <<"0", "X", "f", "F">>]>>,
                    address |-> None]>>,
     <<"multi_factor",
       [threshold |-> U64(1),
        validators |-> <<None, Some(Entry("ecdsa", None, Some(<<AccountA>>),
                                          None, None, None))>>]>>,
     <<"compact", [sponsor |-> AccountA, nonce |-> <<"1">>, expires |-> <<"2">>,
                   elements |-> <<BaseElement>>]>>,
     <<"compact", [sponsor |-> AccountA, nonce |-> <<"1">>, expires |-> <<"2">>,
                   elements |-> <<>>]>>,
     <<"permit2", [element |-> BaseElement, nonce |-> <<"1">>, expires |-> <<"2">>]>>,
     <<"single_chain_legacy",
       [account |-> AccountA, intent_executor_address |-> AccountB,
        destination_chain_id |-> <<"1">>, destination_ops |-> NoOps,
        nonce |-> <<"1">>]>>,
     <<"single_chain_gas_refund",
       [account |-> AccountA, intent_executor_address |-> AccountB,
        destination_chain_id |-> <<"1">>, destination_ops |-> NoOps,
        nonce |-> <<"1">>,
        gas_refund |-> [token |-> AccountC, exchange_rate |-> <<"3">>,
                        overhead |-> <<"4">>]]>>}

InitCalls ==
    /\ op = [t \in Threads |-> "none"]
    /\ input = [t \in Threads |-> <<>>]
    /\ result = [t \in Threads |-> None]

\* a thread enters an export with its own input value
Begin(t) ==
    \E call \in Calls :
        /\ op[t] = "none"
        /\ op' = [op EXCEPT ![t] = call[1]]
        /\ input' = [input EXCEPT ![t] = call[2]]
        /\ UNCHANGED result

\* a result that depends on what the other threads are doing
CallResultUnlessBusy(t) ==
    IF \E u \in Threads \ {t} : op[u] # "none" /\ result[u] = None
    THEN Err("busy")
    ELSE Export(op[t], input[t])

\* what the export computes for thread t: a function of the thread's input
CallResult(t) == Export(op[t], input[t])

\* the export returns to its thread
Finish(t) ==
    /\ op[t] # "none"
    /\ result[t] = None
    /\ result' = [result EXCEPT ![t] = Some(CallResult(t))]
    /\ UNCHANGED <<op, input>>

\* the thread takes the result and is free for its next call
Take(t) ==
    /\ op[t] # "none"
    /\ result[t] # None
    /\ op' = [op EXCEPT ![t] = "none"]
    /\ input' = [input EXCEPT ![t] = <<>>]
    /\ result' = [result EXCEPT ![t] = None]

NextCalls == \E t \in Threads : Begin(t) \/ Finish(t) \/ Take(t)

SpecCalls == InitCalls /\ [][NextCalls]_vars

(***************************************************************************)
(* Claims about the token-id codec, checked under SpecCodec.               *)
(***************************************************************************)
CodecOps == {"split_token_id", "extract_token_address", "to_token"}

\* the token a successful codec call returned
ReturnedToken == IF op = "split_token_id" THEN result.val.token ELSE result.val

\* C1: for every token id one of the three extraction paths accepts, the other
\* two accept it too and all three return the same 20-byte token:
\* split_token_id(id).token = extract_token_address(id) = to_token(id).
C1_PathsAgree ==
    (op \in CodecOps /\ result.ok) =>
        /\ split_token_id(input).ok
        /\ extract_token_address(input).ok
        /\ to_token(input).ok
        /\ split_token_id(input).val.token = ReturnedToken
        /\ extract_token_address(input).val = ReturnedToken
        /\ to_token(input).val = ReturnedToken
        /\ Len(ReturnedToken) = 42

\* C1 witness: the mask path returned the token of an id whose upper 12 bytes
\* are not all zero (so that masking and truncation both have bits to drop)
C1_Witness ==
    /\ op = "to_token"
    /\ result.ok
    /\ split_token_id(input).val.lock_tag # Hex0x(Rep(0, 12))
    /\ result.val # Hex0x(Rep(0, 20))

\* lockTag is 0x and 12 bytes, token is 0x and 20 bytes, and lockTag followed by
\* token is the 32-byte big-endian form of the id
Reconstructs(lock_tag, token, id_str) ==
    LET tag == HexDecode(lock_tag)
        tok == HexDecode(token)
    IN  /\ StartsWith0x(lock_tag) /\ StartsWith0x(token)
        /\ tag.ok /\ Len(tag.val) = 12
        /\ tok.ok /\ Len(tok.val) = 20
        /\ ParseTokenId(id_str).ok
        /\ tag.val \o tok.val = ParseTokenId(id_str).val

\* C2: for every valid id, split_token_id returns a lockTag of exactly 12 bytes
\* and a token of exactly 20 bytes, and lockTag followed by token is the 32-byte
\* big-endian form of the id; every commitment the builder makes carries such a
\* lockTag and token, those of the id at its position.
C2_SplitReconstructs ==
    /\ (op = "split_token_id" /\ result.ok) =>
            Reconstructs(result.val.lock_tag, result.val.token, input)
    /\ (op = "commitments" /\ result.ok) =>
            /\ Len(result.val) = Len(input)
            /\ \A k \in 1..Len(input) :
                   Reconstructs(result.val[k].lockTag, result.val[k].token, input[k][1])

\* C2 witness: the builder made two commitments, one of them from a decimal id
\* above 2^160, so that both of its halves carry digits
C2_Witness ==
    /\ op = "commitments"
    /\ result.ok
    /\ Len(result.val) = 2
    /\ \E k \in 1..2 :
           /\ ~StartsWith0x(input[k][1])
           /\ result.val[k].lockTag # Hex0x(Rep(0, 12))
           /\ result.val[k].token # Hex0x(Rep(0, 20))

(***************************************************************************)
(* Claims about the validator encoders, checked under SpecValidators.      *)
(***************************************************************************)
\* the bytes of the initData a successful encoder call returned
InitDataBytes == HexDecode(result.val.init_data).val

\* the k-th 32-byte word of a byte string, k from 1
WordAt(bytes, k) == SubSeq(bytes, 32 * (k - 1) + 1, 32 * k)

\* the number a word holds, for words below 2^31
WordNat(w) == ((w[29] * 256 + w[30]) * 256 + w[31]) * 256 + w[32]

\* the last 20 bytes of a word
WordAddress(w) == SubSeq(w, 13, 32)

\* a hex digit in the other letter case
SwapCase(c) ==
    IF c \in Range(SubSeq(LowerDigits, 11, 16)) THEN UpperDigits[IndexOf(LowerDigits, c)]
    ELSE IF c \in Range(SubSeq(UpperDigits, 11, 16)) THEN LowerDigits[IndexOf(UpperDigits, c)]
    ELSE c

\* an address string with every digit after the prefix in the other letter case
SwapDigitCase(s) ==
    [i \in 1..Len(s) |-> IF i <= 2 /\ StartsWith0x(s) THEN s[i] ELSE SwapCase(s[i])]

\* the owner addresses of the input, in input order
InputAddresses == [i \in 1..Len(input.owners) |-> AddressFromStr(input.owners[i]).val]

\* how often x occurs in the sequence s
Count(s, x) == Cardinality({i \in 1..Len(s) : s[i] = x})

\* a <= b byte-wise
LeqBytes(a, b) == a = b \/ LessBytes(a, b)

\* C3: ownable::encode encodes (threshold, owners) with the threshold equal to
\* the input threshold and the owner array in ascending order of the raw 20
\* bytes, whatever the letter case of the input; the array has the input's
\* length and is the same multiset of addresses (duplicates kept).
C3_OwnersSorted ==
    (op = "ownable" /\ result.ok) =>
        LET b     == InitDataBytes
            n     == Len(input.owners)
            owner == [i \in 1..n |-> WordAt(b, 3 + i)]
            addrs == [i \in 1..n |-> WordAddress(owner[i])]
        IN  /\ Len(b) = 32 * (3 + n)
            /\ WordAt(b, 1) = Rep(0, 24) \o input.threshold
            /\ WordNat(WordAt(b, 2)) = 64
            /\ WordNat(WordAt(b, 3)) = n
            /\ \A i \in 1..n : SubSeq(owner[i], 1, 12) = Rep(0, 12)
            /\ \A i \in 1..(n - 1) : LeqBytes(addrs[i], addrs[i + 1])
            /\ \A i \in 1..n : Count(addrs, addrs[i]) = Count(InputAddresses, addrs[i])
            /\ \A i \in 1..n : Count(addrs, InputAddresses[i]) > 0
            /\ LET swapped == [input EXCEPT !.owners =
                                  [i \in 1..n |-> SwapDigitCase(input.owners[i])]]
               IN  ownable_encode(swapped) = result

\* C3 witness: three owners were encoded that came out of order and hold the
\* same address twice, once in lower and once in upper case
C3_Witness ==
    /\ op = "ownable"
    /\ result.ok
    /\ input.owners = <<AccountA, AccountB, AccountAUpper>>
    /\ WordAddress(WordAt(InitDataBytes, 4)) = AddressFromStr(AccountB).val

\* the input of the simple-owner encoder with the owners rearranged by p
PermutedOwnable(in, p) ==
    [in EXCEPT !.owners = [i \in 1..Len(in.owners) |-> in.owners[p[i]]]]

\* the input of the expiring-owner encoder with the owners rearranged by p,
\* each owner keeping its expiration (the supplied one, or the default)
PermutedENS(in, p) ==
    [in EXCEPT !.owners = [i \in 1..Len(in.owners) |-> in.owners[p[i]]],
               !.owner_expirations =
                   [i \in 1..Len(in.owners) |-> ExpirationAt(in.owner_expirations, p[i])]]

\* the initData of the call equals that of every rearrangement of its input
SameForEveryOrder ==
    \A p \in Permutations(1..Len(input.owners)) :
        LET other == IF op = "ownable" THEN ownable_encode(PermutedOwnable(input, p))
                     ELSE ens_encode(PermutedENS(input, p))
        IN  other.ok /\ other.val.init_data = result.val.init_data

\* C4 as claimed: for any owner list and any permutation of it (expirations
\* permuted alike), ownable::encode and ens::encode return identical initData.
C4_OrderInvariant ==
    (op \in {"ownable", "ens"} /\ result.ok) => SameForEveryOrder

\* no address occurs in the input with two different expirations
OneExpirationPerAddress ==
    \A i, j \in 1..Len(input.owners) :
        InputAddresses[i] = InputAddresses[j] =>
            ExpirationAt(input.owner_expirations, i) = ExpirationAt(input.owner_expirations, j)

\* C4 as amended: ownable::encode returns identical initData for any permutation
\* of any owner list; ens::encode does for any owner list in which no address
\* occurs with two different expirations.
C4_OrderInvariantPerAddress ==
    (\/ op = "ownable" /\ result.ok
     \/ op = "ens" /\ result.ok /\ OneExpirationPerAddress) => SameForEveryOrder

\* C4 witness: the expiring-owner encoder encoded two owners given in descending
\* order, with different expirations
C4_Witness ==
    /\ op = "ens"
    /\ result.ok
    /\ Len(input.owners) = 2
    /\ LessBytes(InputAddresses[2], InputAddresses[1])
    /\ ExpirationAt(input.owner_expirations, 1) # ExpirationAt(input.owner_expirations, 2)
    /\ OneExpirationPerAddress

\* C5: in every initData ens::encode returns, each input index i has its pair
\* in the encoded list: the address owners[i] with the expiration
\* owner_expirations[i] if supplied and 2^48 - 1 if not, the value unchanged
\* (the encoded list has as many pairs of each kind as the input).
C5_PairsKept ==
    (op = "ens" /\ result.ok) =>
        LET b      == InitDataBytes
            n      == Len(input.owners)
            want   == [i \in 1..n |->
                          (Rep(0, 12) \o InputAddresses[i])
                          \o (Rep(0, 24) \o ExpirationAt(input.owner_expirations, i))]
            got    == [i \in 1..n |-> WordAt(b, 2 + 2 * i) \o WordAt(b, 3 + 2 * i)]
        IN  /\ Len(b) = 32 * (3 + 2 * n)
            /\ \A i \in 1..n : Count(got, want[i]) = Count(want, want[i])

\* C6: webauthn::encode encodes the credentials in the caller's order, as many
\* as were given, each as (pubKeyX, pubKeyY, requireUV) with a requireUV word
\* of zero.
C6_CredentialsInOrder ==
    (op = "webauthn" /\ result.ok) =>
        LET b == InitDataBytes
            n == Len(input.credentials)
        IN  /\ Len(b) = 32 * (3 + 3 * n)
            /\ WordAt(b, 1) = Rep(0, 24) \o input.threshold
            /\ WordNat(WordAt(b, 2)) = 64
            /\ WordNat(WordAt(b, 3)) = n
            /\ \A i \in 1..n :
                  /\ WordAt(b, 1 + 3 * i) = U256FromStr(input.credentials[i].pub_key_x).val
                  /\ WordAt(b, 2 + 3 * i) = U256FromStr(input.credentials[i].pub_key_y).val
                  /\ WordAt(b, 3 + 3 * i) = Rep(0, 32)

\* C6 witness: two credentials were encoded, the first with the larger key
C6_Witness ==
    /\ op = "webauthn"
    /\ result.ok
    /\ Len(input.credentials) = 2
    /\ LessBytes(WordAt(InitDataBytes, 7), WordAt(InitDataBytes, 4))

\* the (bytes32, bytes)[] array read back from its ABI encoding: the words are
\* followed from the array's offset to each item's offset and data
DecodedEntries(abi) ==
    LET start == WordNat(WordAt(abi, 1))
        n     == WordNat(SubSeq(abi, start + 1, start + 32))
        base  == start + 32
        Item(k) ==
            LET off  == base + WordNat(SubSeq(abi, base + 32 * (k - 1) + 1, base + 32 * k))
                doff == off + WordNat(SubSeq(abi, off + 33, off + 64))
                dlen == WordNat(SubSeq(abi, doff + 1, doff + 32))
            IN  [packedValidatorAndId |-> SubSeq(abi, off + 1, off + 32),
                 data                 |-> SubSeq(abi, doff + 33, doff + 32 + dlen)]
    IN  [k \in 1..n |-> Item(k)]

\* the hardcoded address of a nested kind
DefaultAddress(type) ==
    CASE type = "ecdsa" -> OWNABLE_VALIDATOR_ADDRESS
      [] type = "ens" -> ENS_VALIDATOR_ADDRESS
      [] type = "passkey" -> WEBAUTHN_VALIDATOR_ADDRESS

\* the positions of the input list that hold an entry
PresentPositions == {i \in 1..Len(input.validators) : input.validators[i] # None}

\* C7: in every initData multi_factor::encode returns, a null entry has no
\* output entry and the entry at input position i (from 0) has exactly one,
\* whose key is 12 big-endian bytes of i followed by the 20 bytes of the inner
\* validator address and whose data is the inner initData; the output entries
\* are in ascending input position.
C7_KeysKeepInputIndex ==
    (op = "multi_factor" /\ result.ok) =>
        LET b       == InitDataBytes
            entries == DecodedEntries(SubSeq(b, 2, Len(b)))
        IN  /\ Len(entries) = Cardinality(PresentPositions)
            /\ \A i \in PresentPositions :
                  LET k == Cardinality({j \in PresentPositions : j <= i})
                      v == input.validators[i][1]
                      e == entries[k]
                  IN  /\ SubSeq(e.packedValidatorAndId, 1, 11) = Rep(0, 11)
                      /\ e.packedValidatorAndId[12] = i - 1
                      /\ SubSeq(e.packedValidatorAndId, 13, 32) =
                             AddressFromStr(UnwrapOr(v.address,
                                                     DefaultAddress(v.validator_type))).val
                      /\ Hex0x(e.data) = InnerModule(v).val.init_data

\* C7 witness: a list with a null entry followed by a present one was encoded
C7_Witness ==
    /\ op = "multi_factor"
    /\ result.ok
    /\ Len(input.validators) >= 2
    /\ input.validators[1] = None
    /\ input.validators[Len(input.validators)] # None

\* C8: in every initData multi_factor::encode returns, the first byte read as
\* an unsigned integer equals the input threshold, for every u64 threshold, and
\* the bytes after it are the ABI encoding of the (bytes32, bytes)[] array.
C8_ThresholdByte ==
    (op = "multi_factor" /\ result.ok) =>
        LET b   == InitDataBytes
            abi == SubSeq(b, 2, Len(b))
        IN  /\ Rep(0, 7) \o <<b[1]>> = input.threshold
            /\ AbiEntries(DecodedEntries(abi)) = abi

ValidatorOps == {"ownable", "ens", "webauthn", "multi_factor"}

\* C9 as claimed: the initData of every ModuleOutput of the four validator
\* encoders has a byte length that is a multiple of 32.
C9_WordAligned ==
    (op \in ValidatorOps /\ result.ok) => Len(InitDataBytes) % 32 = 0

\* C9 as amended: the initData of the simple-owner, expiring-owner and
\* credential-based encoders has a byte length that is a multiple of 32; the
\* composite encoder's is one byte (the threshold) longer than a multiple of 32.
C9_WordAlignedButComposite ==
    /\ (op \in {"ownable", "ens", "webauthn"} /\ result.ok) => Len(InitDataBytes) % 32 = 0
    /\ (op = "multi_factor" /\ result.ok) => Len(InitDataBytes) % 32 = 1

\* C9 witness: the composite encoder returned an initData holding two entries
C9_Witness ==
    /\ op = "multi_factor"
    /\ result.ok
    /\ Cardinality(PresentPositions) = 2
    /\ Len(InitDataBytes) > 33

\* "0x" and 40 hex digits
IsAddressHex(s) ==
    /\ Len(s) = 42
    /\ StartsWith0x(s)
    /\ \A i \in 3..Len(s) : HexDigit(s[i]) >= 0

\* the address a validator encoder is to return for the call: the override when
\* the input has one, the hardcoded address of the kind otherwise
ExpectedAddress ==
    CASE op = "ownable" -> UnwrapOr(input.address, OWNABLE_VALIDATOR_ADDRESS)
      [] op = "ens" -> UnwrapOr(input.address, ENS_VALIDATOR_ADDRESS)
      [] op = "webauthn" -> UnwrapOr(input.address, WEBAUTHN_VALIDATOR_ADDRESS)
      [] op = "multi_factor" -> MULTI_FACTOR_VALIDATOR_ADDRESS

\* C10: the address of every ModuleOutput a validator encoder returns is the
\* caller's override when one is given and the kind's hardcoded address
\* otherwise, and in both cases is "0x" followed by 40 hex digits.
C10_AddressForm ==
    (op \in ValidatorOps /\ result.ok) =>
        /\ result.val.address = ExpectedAddress
        /\ IsAddressHex(result.val.address)

\* an entry the composite encoder is to refuse: a kind name that is none of the
\* three, or a kind without the field it requires
Offending(v) ==
    \/ v.validator_type \notin {"ecdsa", "ens", "passkey"}
    \/ v.validator_type \in {"ecdsa", "ens"} /\ v.owners = None
    \/ v.validator_type = "passkey" /\ v.credentials = None

\* the message that names the kind, or the kind and the field, of such an entry
OffenceMessage(v) ==
    CASE v.validator_type = "ecdsa" -> "ecdsa validator requires owners"
      [] v.validator_type = "ens" -> "ens validator requires owners"
      [] v.validator_type = "passkey" -> "passkey validator requires credentials"
      [] OTHER -> "unknown validator type: " \o v.validator_type

\* the positions whose entry, taken alone, the composite encoder cannot encode
FailingPositions ==
    {i \in PresentPositions : ~ValidatorEntryOf(i - 1, input.validators[i][1]).ok}

C12_DomainChainIdIsFirst ==
    op = "compact" =>
        /\ Len(input.elements) = 0 => ~result.ok
        /\ result.ok =>
              /\ Len(input.elements) > 0
              /\ MapErr(ParseU64(input.elements[1].chain_id), "") =
                     Ok(result.val.domain.chainId.number)
              /\ Len(result.val.message.elements) = Len(input.elements)
              /\ \A i \in 1..Len(input.elements) :
                     result.val.message.elements[i].chainId =
                         JString(input.elements[i].chain_id)

\* C12 witness: a document was built from two elements declaring the chain ids
\* 1 and 10, in this order
C12_Witness ==
    /\ op = "compact"
    /\ result.ok
    /\ Len(input.elements) = 2
    /\ input.elements[1].chain_id = <<"1">>
    /\ input.elements[2].chain_id = <<"1", "0">>
    /\ result.val.domain.chainId = JNumber(U64(1))

\* a chain id, a packed token id, a qualifier the parsers refuse
MalformedChainId(s) == ~ParseU64(s).ok

MalformedTokenId(s) == ~ParseTokenId(s).ok

MalformedQualifier(s) == ~HexDecode(TrimStart0x(s)).ok

\* some token id among the pairs is malformed
SomeMalformedId(pairs) == \E k \in 1..Len(pairs) : MalformedTokenId(pairs[k][1])

\* C13: compact::build_typed_data returns an error whenever the element list is
\* empty or some element, at any position, has a malformed chain id, a
\* malformed packed token id among its commitments or payouts, or a malformed
\* qualifier.
C13_MalformedFails ==
    (op = "compact"
     /\ \/ Len(input.elements) = 0
        \/ \E i \in 1..Len(input.elements) :
              LET e == input.elements[i]
              IN  \/ MalformedChainId(e.chain_id)
                  \/ SomeMalformedId(e.ids_and_amounts)
                  \/ SomeMalformedId(e.mandate.token_out)
                  \/ MalformedQualifier(e.mandate.qualifier_encoded_val))
    => ~result.ok

\* a JSON string of decimal digits, at least one
IsDecimalString(v) ==
    /\ DOMAIN v = {"string"}
    /\ Len(v.string) > 0
    /\ \A i \in 1..Len(v.string) :
          v.string[i] \in DOMAIN DigitValue /\ DigitValue[v.string[i]] < 10

\* the integer-valued fields of a mandate object and of its payouts
MandateIntegers(mandate) ==
    {mandate.target.targetChain, mandate.target.fillExpiry, mandate.minGas}
    \cup {mandate.target.tokenOut[k].amount : k \in 1..Len(mandate.target.tokenOut)}

\* the integer-valued fields of the message body of the document returned
MessageIntegers ==
    LET msg == result.val.message
    IN  CASE op = "compact" ->
                {msg.nonce, msg.expires}
                \cup UNION {{msg.elements[i].chainId}
                            \cup {msg.elements[i].commitments[k].amount :
                                     k \in 1..Len(msg.elements[i].commitments)}
                            \cup MandateIntegers(msg.elements[i].mandate) :
                            i \in 1..Len(msg.elements)}
          [] op = "permit2" ->
                {msg.nonce, msg.deadline}
                \cup {msg.permitted[k].amount : k \in 1..Len(msg.permitted)}
                \cup MandateIntegers(msg.mandate)
          [] op = "single_chain_legacy" ->
                {msg.nonce, msg.gasRefund.exchangeRate}
          [] op = "single_chain_gas_refund" ->
                {msg.nonce, msg.gasRefund.exchangeRate, msg.gasRefund.overhead}

BuilderOps == {"compact", "permit2", "single_chain_legacy", "single_chain_gas_refund"}

\* C14: in every document a builder returns, every integer-valued field of the
\* message body is a JSON string of decimal digits and domain.chainId is a
\* JSON number.
C14_IntegersAreDecimalStrings ==
    (op \in BuilderOps /\ result.ok) =>
        /\ \A v \in MessageIntegers : IsDecimalString(v)
        /\ DOMAIN result.val.domain.chainId = {"number"}

\* the atomic types of a typed-data schema that the builders use
AtomicTypes == {"address", "uint256", "uint128", "bytes12", "bytes32", "bytes"}

\* every field type of the schema is atomic, or the name of an entry of the
\* schema, or such a name followed by "[]"
SchemaClosed(types) ==
    \A struct \in DOMAIN types :
        \A k \in 1..Len(types[struct]) :
            LET type == types[struct][k].type
            IN  \/ type \in AtomicTypes
                \/ \E name \in DOMAIN types : type = name \/ type = name \o "[]"

\* C15: in every document a builder returns, primaryType is a key of types and
\* every struct name or array-of-struct name used as a field type in types has
\* its own entry in types.
C15_SchemaConsistent ==
    (op \in BuilderOps /\ result.ok) =>
        /\ result.val.primaryType \in DOMAIN result.val.types
        /\ SchemaClosed(result.val.types)

\* C15 witness: a single-chain document was returned, whose schema is put
\* together by insertions and refers to GasRefund, Op and Ops[]
C15_Witness ==
    /\ op = "single_chain_gas_refund"
    /\ result.ok
    /\ \E k \in 1..Len(result.val.types["SingleChainOps"]) :
          result.val.types["SingleChainOps"][k].type = "GasRefund"
    /\ \E k \in 1..Len(result.val.types["Op"]) :
          result.val.types["Op"][k].type = "Ops[]"

\* the field names of a schema entry, in order
FieldNames(fields) == [k \in 1..Len(fields) |-> fields[k].name]

\* C16: the legacy builder's types.GasRefund has exactly the fields token and
\* exchangeRate and its message.gasRefund is the zero address with exchange
\* rate "0" and nothing else; the gas-refund builder's types.GasRefund has
\* exactly token, exchangeRate and overhead and its message.gasRefund carries
\* the caller's three values; in both domain.verifyingContract is the caller's
\* executor address.
C16_GasRefundSchemas ==
    /\ (op = "single_chain_legacy" /\ result.ok) =>
          /\ FieldNames(result.val.types["GasRefund"]) = <<"token", "exchangeRate">>
          /\ result.val.message.gasRefund =
                 [token        |-> <<"0", "x">> \o Rep("0", 40),
                  exchangeRate |-> JString(<<"0">>)]
          /\ result.val.domain.verifyingContract = input.intent_executor_address
    /\ (op = "single_chain_gas_refund" /\ result.ok) =>
          /\ FieldNames(result.val.types["GasRefund"]) =
                 <<"token", "exchangeRate", "overhead">>
          /\ result.val.message.gasRefund =
                 [token        |-> input.gas_refund.token,
                  exchangeRate |-> JString(input.gas_refund.exchange_rate),
                  overhead     |-> JString(input.gas_refund.overhead)]
          /\ result.val.domain.verifyingContract = input.intent_executor_address

\* C16 witness: the gas-refund builder returned a document for a refund in a
\* token other than the zero address
C16_Witness ==
    /\ op = "single_chain_gas_refund"
    /\ result.ok
    /\ input.gas_refund.token = AccountC
    /\ result.val.message.gasRefund.overhead = JString(<<"4">>)

(***************************************************************************)
(* Claims about the strings the codec accepts, checked under SpecCodec.    *)
(***************************************************************************)
\* a non-empty run of decimal digits
IsDecimalNumeral(s) ==
    /\ Len(s) > 0
    /\ \A i \in 1..Len(s) : s[i] \in DOMAIN DigitValue /\ DigitValue[s[i]] < 10

\* a non-empty run of hex digits of either case
IsHexNumeral(s) == Len(s) > 0 /\ \A i \in 1..Len(s) : HexDigit(s[i]) >= 0

\* a decimal numeral, or one "0x" and a hex numeral, of a value below 2^256
IsU256Numeral(s) ==
    IF StartsWith0x(s)
    THEN IsHexNumeral(StripPrefix(s)) /\ from_str_radix(StripPrefix(s), 16).ok
    ELSE IsDecimalNumeral(s) /\ from_str_radix(s, 10).ok

\* C18: a call of the codec succeeds on exactly the strings that are a
\* decimal numeral, or one 0x prefix and a hex numeral, of a value that fits
\* 256 bits, and returns the parse error on every other string.
C18_SucceedsOnNumeralsOnly ==
    op \in CodecOps => (result.ok <=> IsU256Numeral(input))

(***************************************************************************)
(* Claims about failing items of a list, checked under SpecLists.          *)
(***************************************************************************)
ListOps == {"multi_factor", "compact", "permit2"}

\* an element with a malformed commitment id, payout id or qualifier
FailingElement(e) ==
    \/ SomeMalformedId(e.ids_and_amounts)
    \/ SomeMalformedId(e.mandate.token_out)
    \/ MalformedQualifier(e.mandate.qualifier_encoded_val)

\* the input of the call holds an item that fails
SomeItemFails ==
    CASE op = "multi_factor" -> FailingPositions # {}
      [] op = "compact" ->
             \E i \in 1..Len(input.elements) : FailingElement(input.elements[i])
      [] op = "permit2" -> FailingElement(input.element)
      [] OTHER -> FALSE

\* C19: the composite encoder and the builders return an output only when no
\* entry, element, commitment, payout or qualifier of the input fails, at
\* whatever position the failing item stands and however many items before it
\* were processed; and a call that returns an error returns nothing else, no
\* output built from the earlier items either.
C19_NoPartialOutput ==
    op \in ListOps =>
        /\ result.ok => ~SomeItemFails
        /\ ~result.ok => DOMAIN result = {"ok", "err"}

\* C19 witness: a builder got two elements, the first of which builds a
\* document when passed alone, and failed on a payout id of the second
C19_Witness ==
    /\ op = "compact"
    /\ Len(input.elements) = 2
    /\ compact_build_typed_data([input EXCEPT !.elements = <<input.elements[1]>>]).ok
    /\ ~SomeMalformedId(input.elements[2].ids_and_amounts)
    /\ SomeMalformedId(input.elements[2].mandate.token_out)
    /\ ~result.ok
    /\ result.err = "invalid token id"

(***************************************************************************)
(* Claims about calls in sequence and in parallel, checked under SpecCalls. *)
(***************************************************************************)
\* the threads whose call has returned
Returned == {t \in Threads : op[t] # "none" /\ result[t] # None}

====
